---- MODULE Spec2Model ----
(***************************************************************************)
(* Model of Lotus::InferenceSession::Impl                                  *)
(* (src/lotus/core/framework/inference_session.cc).                        *)
(*                                                                         *)
(* Caller threads invoke Load, Initialize and Run on one session.  A       *)
(* method is split where another thread can interleave with an effect:     *)
(* the acquisition of session_mutex_, the statements executed under it,    *)
(* the scheduling of the closure on the thread pool and the wait on the    *)
(* Notification.  The increment of current_num_runs_ is taken together     *)
(* with the scheduling that follows it and the decrement with the wait     *)
(* that precedes it: no control flow reads the counter.  The closure of a  *)
(* Run is executed by a pool worker in two steps: the start of Execute,    *)
(* and its end with the assignment of run_status.status and Notify.        *)
(***************************************************************************)
EXTENDS Integers, Sequences, FiniteSets, TLC

\* ------------------------------------------------------------------ bounds
MaxCalls == 4        \* total number of method calls started
NumThreads == 2      \* session_options.num_threads: workers of thread_pool_
NumProviders == 1    \* size of execution_providers_

Threads == {"a", "b"}    \* two threads calling the session's methods
NoThread == "none"       \* session_mutex_ is free
NoRun == 0               \* the thread is not in a Run call

\* ---------------------------------------------------------------- statuses
\* Common::Status is modelled by its message; "OK" is Status::OK().
StatusOK == "OK"
NotLoaded == "Model was not loaded."
KernelFail == "Failed to initialize session because kernel creation failed"
ParseFail == "Model::Load failed"
ExecFail == "Execute failed"
NotImplemented == "NotImplementedException"  \* thrown, not returned
Timeout == "Timeout"          \* the timeout condition; no statement yields it
NoStatus == "none"

IsOK(st) == st = StatusOK

\* --------------------------------------------------- external collaborators
NoModel == "null"
ModelUris == {"m1", "m2", "bad"}

\* Model::Load(model_uri, &tmp_model_ptr): the parser either yields a model
\* or a failure status and no model.
ModelLoad(uri) ==
  IF uri = "bad" THEN [st |-> ParseFail, model |-> NoModel]
                 ELSE [st |-> StatusOK, model |-> uri]

\* model_->MainGraph(): the node list (operator types, in node order).
MainGraph(m) ==
  IF m = "m1" THEN <<"Add", "Mul">>
  ELSE IF m = "m2" THEN <<"Add", "Nope">>
  ELSE IF m = "m3" THEN <<"Nope", "Mul">>
  ELSE IF m = "m4" THEN <<"Add", "Mul">>
  ELSE <<>>

\* Execution providers: the one whose transformer the session applies, the
\* CPU provider, and a second device provider.
provider_ == "B"
kCpuExecutionProvider == "CPUExecutionProvider"
OtherProvider == "OtherExecutionProvider"

\* The provider each node of the model's graph is assigned to.
NodeProviders(m) ==
  IF m = "m4" THEN <<kCpuExecutionProvider, OtherProvider>>
  ELSE [i \in 1..Len(MainGraph(m)) |-> kCpuExecutionProvider]

\* ORT_THROW("Execution type '...' doesn't support memcpy "): the node is
\* assigned to a provider that is neither provider_, nor the CPU provider,
\* nor unassigned.
ProcessDefsThrows(node) ==
  /\ node.provider # provider_
  /\ node.provider # kCpuExecutionProvider /\ node.provider # ""

\* The pass of the provider's transformer over the model's graph raises
\* that error.
ApplyRaises(m) ==
  \E i \in DOMAIN NodeProviders(m) :
    ProcessDefsThrows([provider |-> NodeProviders(m)[i]])

\* How the error leaves GraphTransformer::Apply: as the exception, or as
\* the failure status Apply returns.
ApplySurfaces == {"exception", "status"}
MemcpyException == "OnnxRuntimeException"   \* thrown, not returned

RegisteredOps == {"Add", "Mul"}
NullKernel == "nullptr"

\* CreateOpKernel(opId, &info): a kernel, or nullptr when the registry has
\* no kernel for the operator type.
CreateOpKernel(opId) == IF opId \in RegisteredOps THEN opId ELSE NullKernel

\* The graph object of a model, as parsed; no graph.
GraphOf(m) == [model |-> m, applied |-> 0]
NoGraph == GraphOf(NoModel)

\* SessionState::Init(graph): stores the graph and sizes the kernel table to
\* the graph's node count, keeping the entries it already has.
SessionStateInit(old, m) ==
  [i \in 1..Len(MainGraph(m)) |-> IF i <= Len(old) THEN old[i] ELSE NullKernel]

\* SessionState::AddKernel(index, kernel)
AddKernel(table, i, k) == [table EXCEPT ![i] = k]

\* ------------------------------------------------------------------- state
VARIABLES
  pc,                \* pc[t]: where caller thread t is
  local,             \* local[t]: arguments and locals of t's current call
  result,            \* the last call that ended: which method, how
  session_mutex_,    \* the thread holding session_mutex_, or NoThread
  is_model_loaded_,
  is_inited_,
  model_,
  p_graph_,          \* *session_state_.p_graph_: the graph of which model,
                     \* and how many transformer passes have rewritten it
  session_kernels_,  \* session_state_'s kernel table, by node index
  current_num_runs_,
  runs,              \* RunStatus objects and their closures, by run id
  queue,             \* closures scheduled on thread_pool_, not yet started
  calls,             \* history: number of calls started
  everLoaded         \* history: some Load has succeeded

\* TransformerMemcpyImpl (src/onnxruntime/core/framework/transformer_memcpy.cc)
VARIABLES
  graph_,                     \* the graph the pass rewrites
  provider_nodes_,            \* names of the nodes assigned to provider_
  provider_input_defs_,
  provider_output_defs_,
  non_provider_input_defs_,
  non_provider_output_defs_,
  replacements_,              \* NodeArg -> the NodeArg that replaces it
  modified,                   \* the local of ModifyGraph
  mpc,                        \* where ModifyGraph is
  returned,                   \* history: what each ModifyGraph call returned
  pass_start                  \* history: the graph when the call began

sessionVars == <<pc, local, result, session_mutex_, is_model_loaded_,
                 is_inited_, model_, p_graph_, session_kernels_,
                 current_num_runs_, runs, queue, calls, everLoaded>>

memcpyVars == <<graph_, provider_nodes_, provider_input_defs_,
                provider_output_defs_, non_provider_input_defs_,
                non_provider_output_defs_, replacements_, modified, mpc,
                returned, pass_start>>

\* Reference-counted objects of the C API
\* (src/include/onnxruntime/core/framework/onnx_object_cxx.h,
\*  src/onnxruntime/core/providers/mkldnn/mkldnn_provider_factory.cc)
VARIABLES
  ref_count,         \* ref_count[o]: the std::atomic_int of object o
  deleted,           \* deleted[o]: how many times `delete this_ptr` ran
  held,              \* held[o][h]: references to o that holder h owns
  rel,               \* rel[o][h]: h's Release call on o, after its decrement
  addrefs            \* history: number of AddRef calls made

refVars == <<ref_count, deleted, held, rel, addrefs>>

\* ExecutionFrame (src/onnxruntime/core/framework/execution_frame.h)
VARIABLES
  all_values_,       \* the MLValues of the frame, by mlvalue index
  ever_bound,        \* history: the indices that have been allocated
  frame_call         \* the last call of a getter and what it yielded

frameVars == <<all_values_, ever_bound, frame_call>>

\* ConvBase::InferOutputShape (src/onnxruntime/core/providers/cpu/nn/conv_base.h)
VARIABLES
  conv_args,         \* the arguments of the call, for one spatial dimension
  conv_result        \* what the call returned and wrote through its pointers

convVars == <<conv_args, conv_result>>

\* The allocator CreateAllocator returns
\* (src/onnxruntime/core/framework/allocatormgr.cc) and the device memory
\* under it
VARIABLES
  allocator,         \* what CreateAllocator returned
  regions,           \* the blocks obtained from the device allocator
  chunks,            \* the chunks of these blocks, free or in use
  alloc_call         \* the last call on the allocator and its outcome

allocVars == <<allocator, regions, chunks, alloc_call>>

vars == <<sessionVars, memcpyVars, refVars, frameVars, convVars, allocVars>>
nonSessionVars == <<memcpyVars, refVars, frameVars, convVars, allocVars>>
nonMemcpyVars == <<sessionVars, refVars, frameVars, convVars, allocVars>>
nonRefVars == <<sessionVars, memcpyVars, frameVars, convVars, allocVars>>
nonFrameVars == <<sessionVars, memcpyVars, refVars, convVars, allocVars>>
nonConvVars == <<sessionVars, memcpyVars, refVars, frameVars, allocVars>>
nonAllocVars == <<sessionVars, memcpyVars, refVars, frameVars, convVars>>

sessionState == <<is_model_loaded_, is_inited_, model_, p_graph_,
                  session_kernels_, everLoaded>>

\* A std::atomic<int> that no constructor initialises holds any value.
IndeterminateInt == {0, 1}

NoLocal == [timeout |-> 0, st |-> NoStatus, tmp |-> NoModel, run |-> NoRun]
NoResult == [op |-> "none", st |-> NoStatus]

\* The session as its constructor leaves it.
SessionInit ==
  /\ pc = [t \in Threads |-> "idle"]
  /\ local = [t \in Threads |-> NoLocal]
  /\ result = NoResult
  /\ session_mutex_ = NoThread
  /\ is_model_loaded_ = FALSE
  /\ is_inited_ = FALSE
  /\ model_ = NoModel
  /\ p_graph_ = NoGraph
  /\ session_kernels_ = <<>>
  /\ current_num_runs_ \in IndeterminateInt
  /\ runs = <<>>
  /\ queue = <<>>
  /\ calls = 0
  /\ everLoaded = FALSE

\* No graph is handed to a TransformerMemcpyImpl.
NoNodes == {}
EmptyGraph == [nodes |-> NoNodes, initializers |-> {}, inputs |-> {},
               outputs |-> {}]
NoReplacements == <<>>

MemcpyUnused ==
  /\ graph_ = EmptyGraph
  /\ provider_nodes_ = {}
  /\ provider_input_defs_ = {}
  /\ provider_output_defs_ = {}
  /\ non_provider_input_defs_ = {}
  /\ non_provider_output_defs_ = {}
  /\ replacements_ = NoReplacements
  /\ modified = FALSE
  /\ mpc = "unused"
  /\ returned = <<>>
  /\ pass_start = EmptyGraph

\* The objects of the C API as their constructors leave them: the count is
\* 1 and the creator owns that one reference.
Objects == {"ObjectBase", "MkldnnProviderFactory"}
Holders == {"h1", "h2"}
Creator == "h1"
NoRelease == -1      \* the holder is not inside Release

RefInit ==
  /\ ref_count = [o \in Objects |-> 1]
  /\ deleted = [o \in Objects |-> 0]
  /\ held = [o \in Objects |-> [h \in Holders |-> IF h = Creator THEN 1 ELSE 0]]
  /\ rel = [o \in Objects |-> [h \in Holders |-> NoRelease]]
  /\ addrefs = 0

\* No ExecutionFrame has been constructed.
NoOutcome == [thrown |-> "nothing"]
NoFrameCall == [op |-> "none", index |-> 0, outcome |-> NoOutcome]
FrameUnused ==
  /\ all_values_ = <<>>
  /\ ever_bound = {}
  /\ frame_call = NoFrameCall

\* No convolution kernel infers a shape.
NoConvArgs == [pad_type |-> "none"]
NoConvResult == [status |-> "none"]
ConvUnused ==
  /\ conv_args = NoConvArgs
  /\ conv_result = NoConvResult

\* CreateAllocator has not been called.
NoAllocator == [kind |-> "none"]
NoAllocCall == [op |-> "none", count |-> 0]
AllocUnused ==
  /\ allocator = NoAllocator
  /\ regions = <<>>
  /\ chunks = {}
  /\ alloc_call = NoAllocCall

Init ==
  /\ SessionInit /\ MemcpyUnused /\ RefInit /\ FrameUnused /\ ConvUnused
  /\ AllocUnused


\* ----------------------------------------------------------------- helpers
Remove(f, r) == [x \in DOMAIN f \ {r} |-> f[x]]
Put(f, r, v) == [x \in DOMAIN f \cup {r} |-> IF x = r THEN v ELSE f[x]]

\* The call returns (or unwinds): its locals are gone.
Return(t, op, st) ==
  /\ pc' = [pc EXCEPT ![t] = "idle"]
  /\ result' = [op |-> op, st |-> st]
  /\ local' = [local EXCEPT ![t] = NoLocal]

Goto(t, label) == pc' = [pc EXCEPT ![t] = label]

\* A call can start when the caller is between calls.
CanCall(t) == pc[t] = "idle" /\ calls < MaxCalls

\* std::lock_guard<std::mutex> l(session_mutex_): blocks until the mutex is free
Lock_NoExclusion(t) == session_mutex_' = t
Lock(t) == session_mutex_ = NoThread /\ session_mutex_' = t

\* ~lock_guard at the end of the scope
Unlock(t) == session_mutex_' = NoThread

\* -------------------------------------------------------------------- Load
\* lock_guard l(session_mutex_);
\* Common::Status st = Model::Load(model_uri, &tmp_model_ptr);
\* (the parse touches only the call's locals)
LoadEnter(t, uri) ==
  /\ CanCall(t)
  /\ Lock(t)
  /\ calls' = calls + 1
  /\ local' = [local EXCEPT ![t].st = ModelLoad(uri).st,
                            ![t].tmp = ModelLoad(uri).model]
  /\ Goto(t, "load_commit")
  /\ UNCHANGED <<result, sessionState, current_num_runs_, runs, queue>>

LoadCommit_Unconditional(t) ==
  /\ pc[t] = "load_commit"
  /\ is_model_loaded_' = TRUE
  /\ model_' = local[t].tmp
  /\ p_graph_' = GraphOf(local[t].tmp)
  /\ session_kernels_' = SessionStateInit(session_kernels_, local[t].tmp)
  /\ everLoaded' = (everLoaded \/ IsOK(local[t].st))
  /\ Return(t, "Load", local[t].st)
  /\ Unlock(t)
  /\ UNCHANGED <<is_inited_, current_num_runs_, runs, queue, calls>>

\* if (st.IsOK()) { is_model_loaded_ = true; model_ = tmp_model_ptr;
\*                  session_state_.Init(model_->MainGraph()); }  return st;
LoadCommit(t) ==
  /\ pc[t] = "load_commit"
  /\ IF IsOK(local[t].st)
       THEN /\ is_model_loaded_' = TRUE
            /\ model_' = local[t].tmp
            /\ p_graph_' = GraphOf(local[t].tmp)
            /\ session_kernels_' =
                 SessionStateInit(session_kernels_, local[t].tmp)
       ELSE UNCHANGED <<is_model_loaded_, model_, p_graph_, session_kernels_>>
  /\ everLoaded' = (everLoaded \/ IsOK(local[t].st))
  /\ Return(t, "Load", local[t].st)
  /\ Unlock(t)
  /\ UNCHANGED <<is_inited_, current_num_runs_, runs, queue, calls>>

\* -------------------------------------------------------------- Initialize
InitializeEnter(t) ==
  /\ CanCall(t)
  /\ Lock(t)
  /\ calls' = calls + 1
  /\ Goto(t, "init_check")
  /\ UNCHANGED <<local, result, sessionState, current_num_runs_, runs, queue>>

InitializeCheck_NoGuard(t) ==
  /\ pc[t] = "init_check"
  /\ Goto(t, "init_transform")
  /\ UNCHANGED <<local, result, session_mutex_, sessionState,
                 current_num_runs_, runs, queue, calls>>

\* if (!is_model_loaded_) return Status(LOTUS, FAIL, "Model was not loaded.");
InitializeCheck(t) ==
  /\ pc[t] = "init_check"
  /\ IF ~is_model_loaded_
       THEN Return(t, "Initialize", NotLoaded) /\ Unlock(t)
       ELSE Goto(t, "init_transform") /\ UNCHANGED <<local, result, session_mutex_>>
  /\ UNCHANGED <<sessionState, current_num_runs_, runs, queue, calls>>

\* TransformGraph(): one Apply on the graph per execution provider, whose
\* returned status is not looked at; the function returns Status::OK()
\* unless an exception leaves Apply, which nothing here catches.  A pass
\* that raises its error has not rewritten the graph.
TransformGraph(surface) ==
  IF ApplyRaises(p_graph_.model)
    THEN [st |-> IF surface = "exception" THEN MemcpyException ELSE StatusOK,
          graph |-> p_graph_]
    ELSE [st |-> StatusOK,
          graph |-> [p_graph_ EXCEPT !.applied = @ + NumProviders]]

\* Common::Status st = TransformGraph(); if (!st.IsOK()) return st;
\* An exception unwinds Initialize (the lock_guard releases the mutex).
InitializeTransform(t, surface) ==
  /\ pc[t] = "init_transform"
  /\ p_graph_' = TransformGraph(surface).graph
  /\ IF IsOK(TransformGraph(surface).st)
       THEN Goto(t, "init_kernels") /\ UNCHANGED <<local, result, session_mutex_>>
       ELSE Return(t, "Initialize", TransformGraph(surface).st) /\ Unlock(t)
  /\ UNCHANGED <<is_model_loaded_, is_inited_, model_, session_kernels_,
                 everLoaded, current_num_runs_, runs, queue, calls>>

\* ConstructKernels(): the loop over the graph's nodes from node i on; stops
\* with a failure at the first node whose kernel cannot be created.
RECURSIVE ConstructKernelsFrom(_, _, _)
ConstructKernelsFrom(nodes, i, table) ==
  IF i > Len(nodes)
    THEN [st |-> StatusOK, kernels |-> table]
  ELSE IF CreateOpKernel(nodes[i]) = NullKernel
    THEN [st |-> KernelFail, kernels |-> table]
  ELSE ConstructKernelsFrom(nodes, i + 1,
         AddKernel(table, i, CreateOpKernel(nodes[i])))

ConstructKernels ==
  ConstructKernelsFrom(MainGraph(p_graph_.model), 1, session_kernels_)

\* st = ConstructKernels(); if (!st.IsOK()) return st;
\* is_inited_ = true; return Status::OK();
InitializeKernels(t) ==
  /\ pc[t] = "init_kernels"
  /\ session_kernels_' = ConstructKernels.kernels
  /\ IF IsOK(ConstructKernels.st)
       THEN is_inited_' = TRUE /\ Return(t, "Initialize", StatusOK)
       ELSE UNCHANGED is_inited_ /\ Return(t, "Initialize", ConstructKernels.st)
  /\ Unlock(t)
  /\ UNCHANGED <<is_model_loaded_, model_, p_graph_, everLoaded,
                 current_num_runs_, runs, queue, calls>>

\* --------------------------------------------------------------------- Run
\* int GetCurrentNumRuns() { return current_num_runs_.load(); }
GetCurrentNumRuns == current_num_runs_

Timeouts == {0, 1}   \* run_options.timeout_in_ms: none, positive

\* The identity of the RunStatus the call will put on its stack.
UsedRuns == DOMAIN runs \cup {local[u].run : u \in Threads}
FreshRun == CHOOSE r \in 1..MaxCalls :
              r \notin UsedRuns /\ \A q \in 1..(r - 1) : q \in UsedRuns

\* Run(run_options, feeds, p_fetches): entry and lock of the first scope
RunEnter(t, timeout) ==
  /\ CanCall(t)
  /\ Lock(t)
  /\ calls' = calls + 1
  /\ local' = [local EXCEPT ![t].timeout = timeout, ![t].run = FreshRun]
  /\ Goto(t, "run_check")
  /\ UNCHANGED <<result, sessionState, current_num_runs_, runs, queue>>

RunCheck_KeepLock(t) ==
  /\ pc[t] = "run_check"
  /\ Goto(t, "run_sched")
  /\ UNCHANGED <<local, result, session_mutex_, sessionState,
                 current_num_runs_, runs, queue, calls>>

\* { lock_guard l(session_mutex_); if (!is_inited_) { /* return commented out */ } }
\* Both outcomes of the test fall through to the end of the scope.
RunCheck(t) ==
  /\ pc[t] = "run_check"
  /\ IF ~is_inited_ THEN Goto(t, "run_sched") ELSE Goto(t, "run_sched")
  /\ Unlock(t)
  /\ UNCHANGED <<local, result, sessionState, current_num_runs_, runs, queue,
                 calls>>

\* RunStatus run_status: a new executor, a default (OK) status and an
\* unsignalled Notification, on the stack of the calling thread.  exec is
\* the progress of the closure that captures it by reference, and produced
\* (history) the status its Execute call returned.
NewRunStatus(t) ==
  [caller |-> t, frame |-> "live", status |-> StatusOK, notified |-> FALSE,
   exec |-> "queued", produced |-> NoStatus]

\* ++current_num_runs_;
\* RunStatus run_status; run_status.p_exec = ...; thread_pool_.Schedule(closure)
RunSchedule(t) ==
  /\ pc[t] = "run_sched"
  /\ current_num_runs_' = current_num_runs_ + 1
  /\ runs' = Put(runs, local[t].run, NewRunStatus(t))
  /\ queue' = Append(queue, local[t].run)
  /\ Goto(t, "run_wait")
  /\ UNCHANGED <<local, result, session_mutex_, sessionState, calls>>

\* The Run call leaves its frame, by return or by unwinding: run_status is
\* destroyed (its fields hold nothing any more).  A closure that has not
\* ended keeps its references to it.
LeaveFrame(r) ==
  IF runs[r].exec = "ended"
    THEN Remove(runs, r)
    ELSE [runs EXCEPT ![r].frame = "gone", ![r].status = NoStatus,
                      ![r].notified = FALSE, ![r].produced = NoStatus]

\* waitStatus = WaitForNotification(&run_status.executor_done, timeout_in_ms);
\* retval = waitStatus.IsOK() ? run_status.status : waitStatus;
\* --current_num_runs_; return retval;
\* WaitForNotification: timeout_in_ms > 0 is LOTUS_NOT_IMPLEMENTED, which
\* throws out of Run; otherwise it blocks until Notify and returns OK.
RunWait(t) ==
  /\ pc[t] = "run_wait"
  /\ IF local[t].timeout > 0
       THEN /\ Return(t, "Run", NotImplemented)
            /\ UNCHANGED current_num_runs_
       ELSE /\ runs[local[t].run].notified
            /\ current_num_runs_' = current_num_runs_ - 1
            /\ Return(t, "Run", runs[local[t].run].status)
  /\ runs' = LeaveFrame(local[t].run)
  /\ UNCHANGED <<session_mutex_, sessionState, queue, calls>>

\* ------------------------------------------------- the scheduled closure
\* The closure captures run_status by reference.  While the frame is live
\* the reference denotes run r's RunStatus.  Once the frame is gone the
\* reference dangles: an access through it lands in dead stack memory
\* (NoRun: no visible effect) or in the RunStatus that the same thread's
\* next Run call has placed in the same stack slot.
Referent(r) ==
  IF runs[r].frame = "live"
    THEN {r}
    ELSE {NoRun} \cup {v \in DOMAIN runs : /\ v # r
                                           /\ runs[v].caller = runs[r].caller
                                           /\ runs[v].frame = "live"}

\* Pool workers that are inside a closure.
Busy == {r \in DOMAIN runs : runs[r].exec = "executing"}

\* A free pool worker takes the oldest closure and calls p_exec->Execute.
ExecStart ==
  /\ queue # <<>>
  /\ Cardinality(Busy) < NumThreads
  /\ runs' = [runs EXCEPT ![Head(queue)].exec = "executing"]
  /\ queue' = Tail(queue)
  /\ UNCHANGED <<pc, local, result, session_mutex_, sessionState,
                 current_num_runs_, calls>>

\* Execute returns st:  run_status.status = local_status;
\*                      run_status.executor_done.Notify();
\* and the closure ends.  Nothing else runs on the worker in between, and a
\* caller blocked on the Notification reads the status only after Notify.
ExecFinish(r, st, ref) ==
  /\ r \in DOMAIN runs
  /\ runs[r].exec = "executing"
  /\ ref \in Referent(r)
  /\ LET written == [x \in DOMAIN runs |->
                       [runs[x] EXCEPT
                          !.exec = IF x = r THEN "ended" ELSE @,
                          !.produced = IF x = r THEN st ELSE @,
                          !.status = IF x = ref THEN st ELSE @,
                          !.notified = IF x = ref THEN TRUE ELSE @]]
     IN runs' = IF runs[r].frame = "gone"
                  THEN Remove(written, r)
                  ELSE written
  /\ UNCHANGED <<pc, local, result, session_mutex_, sessionState,
                 current_num_runs_, queue, calls>>

\* ------------------------------------------------------------ specification
RunIds == DOMAIN runs \cup {NoRun}

Next ==
  \/ \E t \in Threads, uri \in ModelUris : LoadEnter(t, uri) /\ UNCHANGED nonSessionVars
  \/ \E t \in Threads : LoadCommit(t) /\ UNCHANGED nonSessionVars
  \/ \E t \in Threads : InitializeEnter(t) /\ UNCHANGED nonSessionVars
  \/ \E t \in Threads : InitializeCheck(t) /\ UNCHANGED nonSessionVars
  \/ \E t \in Threads, surface \in ApplySurfaces :
       InitializeTransform(t, surface) /\ UNCHANGED nonSessionVars
  \/ \E t \in Threads : InitializeKernels(t) /\ UNCHANGED nonSessionVars
  \/ \E t \in Threads, timeout \in Timeouts :
       RunEnter(t, timeout) /\ UNCHANGED nonSessionVars
  \/ \E t \in Threads : RunCheck(t) /\ UNCHANGED nonSessionVars
  \/ \E t \in Threads : RunSchedule(t) /\ UNCHANGED nonSessionVars
  \/ \E t \in Threads : RunWait(t) /\ UNCHANGED nonSessionVars
  \/ ExecStart /\ UNCHANGED nonSessionVars
  \/ \E r \in DOMAIN runs, st \in {StatusOK, ExecFail}, ref \in RunIds :
       ExecFinish(r, st, ref) /\ UNCHANGED nonSessionVars

Spec == Init /\ [][Next]_vars

\* The session before its first Run: callers use Load and Initialize only,
\* on models whose kernel lookup succeeds ("m1"), misses at the last node
\* ("m2") or misses at the first node ("m3"), or with a node assigned to a
\* second device provider ("m4").
SetupUris == ModelUris \cup {"m3", "m4"}

NextSetup ==
  \/ \E t \in Threads, uri \in SetupUris : LoadEnter(t, uri) /\ UNCHANGED nonSessionVars
  \/ \E t \in Threads : LoadCommit(t) /\ UNCHANGED nonSessionVars
  \/ \E t \in Threads : InitializeEnter(t) /\ UNCHANGED nonSessionVars
  \/ \E t \in Threads : InitializeCheck(t) /\ UNCHANGED nonSessionVars
  \/ \E t \in Threads, surface \in ApplySurfaces :
       InitializeTransform(t, surface) /\ UNCHANGED nonSessionVars
  \/ \E t \in Threads : InitializeKernels(t) /\ UNCHANGED nonSessionVars

SpecSetup == Init /\ [][NextSetup]_vars

\* =====================================================================
\* TransformerMemcpyImpl: the pass that inserts copy nodes at the boundary
\* of one execution provider
\* (src/onnxruntime/core/framework/transformer_memcpy.cc).
\*
\* A NodeArg is its name, a sequence of strings; the NodeArg that does not
\* exist (an optional input or output left out) has the empty name.  A node
\* is a record: its name, operator type, execution provider, input and
\* output defs, implicit input defs, and what the kernel registry declares
\* for it (kci): the indices of the inputs and of the outputs that are
\* explicitly in CPU memory; a null kci declares none.
\* =====================================================================
NumNodes == 2        \* nodes of the graphs handed to the pass, and
ChainLength == 3     \* of the chain that is handed to it as well
MaxPasses == 2       \* ModifyGraph calls on the same graph

Exists(arg) == arg # <<>>

\* -------------------------------------------------------- graphs handed in
\* Node i computes the NodeArg "o<i>" from one input: the graph input
\* "x", the initializer "w", or the output of an earlier node.  The graph's
\* outputs are the node outputs that no node consumes.
GraphInput == <<"x">>
Initializer == <<"w">>
OutputOf(i) == <<"o" \o ToString(i)>>
NodeName(i) == <<"n" \o ToString(i)>>
Sources(i) == {GraphInput, Initializer} \cup {OutputOf(j) : j \in 1..(i - 1)}

NoKci == [cpu_inputs |-> {}, cpu_outputs |-> {}]
Placements ==
  {[provider |-> p, kci |-> NoKci] :
     p \in {kCpuExecutionProvider, "", OtherProvider}}
  \cup {[provider |-> provider_,
         kci |-> [cpu_inputs |-> ci, cpu_outputs |-> co]] :
          ci \in SUBSET {1}, co \in SUBSET {1}}

MakeNode(i, src, pl) ==
  [name |-> NodeName(i), op |-> "Op", provider |-> pl.provider,
   inputs |-> <<src>>, implicit |-> <<>>, outputs |-> <<OutputOf(i)>>,
   kci |-> pl.kci]

Elems(seq) == {seq[i] : i \in DOMAIN seq}
InputsOf(nodes) == UNION {Elems(n.inputs) : n \in nodes}
OutputsOf(nodes) == UNION {Elems(n.outputs) : n \in nodes}

MakeGraph(n, src, pl) ==
  LET nodes == {MakeNode(i, src[i], pl[i]) : i \in 1..n}
  IN [nodes |-> nodes,
      initializers |-> {Initializer},
      inputs |-> {GraphInput},
      outputs |-> OutputsOf(nodes) \ InputsOf(nodes)]

\* The chain n1 -> n2 -> n3 .. in which only the second node is on
\* provider B and no node reads the initializer.
ChainGraph ==
  MakeGraph(ChainLength,
            [i \in 1..ChainLength |->
               IF i = 1 THEN GraphInput ELSE OutputOf(i - 1)],
            [i \in 1..ChainLength |->
               [provider |-> IF i = 2 THEN provider_ ELSE kCpuExecutionProvider,
                kci |-> NoKci]])

\* The graph in which the first node, on the CPU provider, and the last
\* nodes, on provider B, read the initializer, and the second node, on B,
\* reads what the first computes.
SharedInitializerGraph ==
  MakeGraph(ChainLength,
            [i \in 1..ChainLength |->
               IF i = 2 THEN OutputOf(1) ELSE Initializer],
            [i \in 1..ChainLength |->
               [provider |-> IF i = 1 THEN kCpuExecutionProvider ELSE provider_,
                kci |-> NoKci]])

InputGraphs ==
  {MakeGraph(NumNodes, src, pl) :
     src \in {f \in [1..NumNodes -> Sources(NumNodes)] :
                \A i \in 1..NumNodes : f[i] \in Sources(i)},
     pl \in [1..NumNodes -> Placements]}
  \cup {ChainGraph, SharedInitializerGraph}

\* ------------------------------------------------- collaborators of the pass
\* Every NodeArg and every node name of the graph.
NodeArgs(g) ==
  InputsOf(g.nodes) \cup OutputsOf(g.nodes)
    \cup UNION {Elems(n.implicit) : n \in g.nodes}
    \cup g.initializers \cup g.inputs \cup g.outputs
NodeNames(g) == {n.name : n \in g.nodes}

\* Graph::GenerateNodeArgName / GenerateNodeName: a name built on base that
\* nothing in the graph has.
RECURSIVE FreshName(_, _)
FreshName(base, used) ==
  IF base \notin used THEN base ELSE FreshName(Append(base, "1"), used)
GenerateNodeArgName(g, base) == FreshName(base, NodeArgs(g))
GenerateNodeName(g, base) == FreshName(base, NodeNames(g))

\* KernelRegistryManager::SearchKernelRegistry(node, &kci)
SearchKernelRegistry(node) == node.kci

\* The kernels a provider registers for the copy operators: the source of
\* MemcpyFromHost and the destination of MemcpyToHost are in CPU memory.
MemcpyKci(op_name) ==
  IF op_name = "MemcpyFromHost"
    THEN [cpu_inputs |-> {1}, cpu_outputs |-> {}]
    ELSE [cpu_inputs |-> {}, cpu_outputs |-> {1}]

\* Node::ReplaceDefs(replacements): every def of the node, input or output,
\* that has an entry in the map is replaced by what the map gives for it.
Replaced(defs, repl) ==
  [i \in DOMAIN defs |->
     IF defs[i] \in DOMAIN repl THEN repl[defs[i]] ELSE defs[i]]
ReplaceDefs(node, repl) ==
  [node EXCEPT !.inputs = Replaced(@, repl), !.outputs = Replaced(@, repl)]

\* std::map::insert: an existing entry for the key is kept.
MapInsert(map, key, val) ==
  IF key \in DOMAIN map THEN map
  ELSE [k \in DOMAIN map \cup {key} |-> IF k = key THEN val ELSE map[k]]

\* --------------------------------------------------------------- ProcessDefs
\* What ProcessDefs(node, kernel_registries) inserts into the five sets.
ProcessDefs(node) ==
  IF node.provider = provider_
    THEN LET kci == SearchKernelRegistry(node)
         IN [provider_nodes |-> {node.name},
             non_provider_inputs |->
               {node.inputs[i] : i \in DOMAIN node.inputs \cap kci.cpu_inputs},
             provider_inputs |->
               {node.inputs[i] : i \in DOMAIN node.inputs \ kci.cpu_inputs},
             non_provider_outputs |->
               {node.outputs[i] :
                  i \in {j \in DOMAIN node.outputs \cap kci.cpu_outputs :
                           Exists(node.outputs[j])}},
             provider_outputs |->
               {node.outputs[i] :
                  i \in {j \in DOMAIN node.outputs \ kci.cpu_outputs :
                           Exists(node.outputs[j])}}]
    ELSE [provider_nodes |-> {},
          provider_inputs |-> {},
          provider_outputs |-> {},
          non_provider_inputs |->
            {arg \in Elems(node.inputs) \cup Elems(node.implicit) :
               Exists(arg)},
          non_provider_outputs |-> {arg \in Elems(node.outputs) : Exists(arg)}]

\* for (auto& node : graph_.Nodes()) ProcessDefs(node, kernel_registries);
ProcessAllDefs(nodes) ==
  [provider_nodes |-> UNION {ProcessDefs(n).provider_nodes : n \in nodes},
   provider_inputs |-> UNION {ProcessDefs(n).provider_inputs : n \in nodes},
   provider_outputs |-> UNION {ProcessDefs(n).provider_outputs : n \in nodes},
   non_provider_inputs |->
     UNION {ProcessDefs(n).non_provider_inputs : n \in nodes},
   non_provider_outputs |->
     UNION {ProcessDefs(n).non_provider_outputs : n \in nodes}]

\* --------------------------------------------------------------- AddCopyNode
\* AddCopyNode(arg, is_input) on graph g with the replacement map repl.
AddCopyNode(g, repl, arg, is_input) ==
  LET new_arg == GenerateNodeArgName(g, Append(arg, provider_))
      src_arg == IF is_input THEN arg ELSE new_arg
      dst_arg == IF is_input THEN new_arg ELSE arg
      op_name == IF is_input THEN "MemcpyFromHost" ELSE "MemcpyToHost"
      new_node == [name |-> GenerateNodeName(g, <<"Memcpy">>),
                   op |-> op_name, provider |-> provider_,
                   inputs |-> <<src_arg>>, implicit |-> <<>>,
                   outputs |-> <<dst_arg>>, kci |-> MemcpyKci(op_name)]
  IN [graph |-> [g EXCEPT !.nodes = @ \cup {new_node}],
      replacements |-> MapInsert(repl, arg, new_arg)]

\* for (auto arg : args) AddCopyNode(arg, is_input);
RECURSIVE AddCopyNodes(_, _, _, _)
AddCopyNodes(g, repl, args, is_input) ==
  IF args = {} THEN [graph |-> g, replacements |-> repl]
  ELSE LET arg == CHOOSE a \in args : TRUE
           one == AddCopyNode(g, repl, arg, is_input)
       IN AddCopyNodes(one.graph, one.replacements, args \ {arg}, is_input)

\* ------------------------------------------------------- ProcessInitializers
FindNodeArg_Any(def_set, name) == TRUE

\* FindNodeArg(def_set, name): the NodeArg of that name is in the set.
FindNodeArg(def_set, name) == name \in def_set

\* The loop of ProcessInitializers over the initializers names: for one
\* found in both input sets, a copy of the tensor under a new name and an
\* entry in the local replacement map.
RECURSIVE DuplicateInitializers(_, _, _)
DuplicateInitializers(g, repl, names) ==
  IF names = {} THEN [graph |-> g, replacements |-> repl]
  ELSE LET name == CHOOSE a \in names : TRUE
           new_def_name == GenerateNodeArgName(g, name)
       IN IF /\ FindNodeArg(provider_input_defs_, name)
             /\ FindNodeArg(non_provider_input_defs_, name)
            THEN DuplicateInitializers(
                   [g EXCEPT !.initializers = @ \cup {new_def_name}],
                   MapInsert(repl, name, new_def_name), names \ {name})
            ELSE DuplicateInitializers(g, repl, names \ {name})

ReplaceInProviderNodes_AllNodes(g, repl) ==
  [g EXCEPT !.nodes = {ReplaceDefs(n, repl) : n \in @}]

\* for (auto p_node : provider_nodes_) p_node->ReplaceDefs(replacements);
ReplaceInProviderNodes(g, repl) ==
  [g EXCEPT !.nodes = {IF n.name \in provider_nodes_
                         THEN ReplaceDefs(n, repl) ELSE n : n \in @}]

ProcessInitializers ==
  LET dup == DuplicateInitializers(graph_, NoReplacements, graph_.initializers)
  IN ReplaceInProviderNodes(dup.graph, dup.replacements)

\* --------------------------------------------------------------- ModifyGraph
\* bool modified = false; the loop of ProcessDefs over the nodes.  When a
\* node makes ProcessDefs throw, the call unwinds with the graph as it was.
ModifyGraphDefs ==
  /\ mpc = "ready"
  /\ Len(returned) < MaxPasses
  /\ pass_start' = graph_
  /\ modified' = FALSE
  /\ replacements_' = NoReplacements
  /\ IF \E n \in graph_.nodes : ProcessDefsThrows(n)
       THEN /\ mpc' = "threw"
            /\ provider_nodes_' = {}
            /\ provider_input_defs_' = {}
            /\ provider_output_defs_' = {}
            /\ non_provider_input_defs_' = {}
            /\ non_provider_output_defs_' = {}
       ELSE /\ mpc' = "initializers"
            /\ provider_nodes_' = ProcessAllDefs(graph_.nodes).provider_nodes
            /\ provider_input_defs_' =
                 ProcessAllDefs(graph_.nodes).provider_inputs
            /\ provider_output_defs_' =
                 ProcessAllDefs(graph_.nodes).provider_outputs
            /\ non_provider_input_defs_' =
                 ProcessAllDefs(graph_.nodes).non_provider_inputs
            /\ non_provider_output_defs_' =
                 ProcessAllDefs(graph_.nodes).non_provider_outputs
  /\ UNCHANGED <<graph_, returned, nonMemcpyVars>>

\* ProcessInitializers();
ModifyGraphInitializers ==
  /\ mpc = "initializers"
  /\ graph_' = ProcessInitializers
  /\ mpc' = "copy_from_host"
  /\ UNCHANGED <<provider_nodes_, provider_input_defs_, provider_output_defs_,
                 non_provider_input_defs_, non_provider_output_defs_,
                 replacements_, modified, returned, pass_start, nonMemcpyVars>>

ModifyGraphCopyFromHost_NoTest ==
  /\ mpc = "copy_from_host"
  /\ LET args == non_provider_output_defs_
         done == AddCopyNodes(graph_, replacements_, args, TRUE)
     IN /\ graph_' = done.graph
        /\ replacements_' = done.replacements
        /\ modified' = (modified \/ args # {})
  /\ mpc' = "copy_to_host"
  /\ UNCHANGED <<provider_nodes_, provider_input_defs_, provider_output_defs_,
                 non_provider_input_defs_, non_provider_output_defs_,
                 returned, pass_start, nonMemcpyVars>>

\* for (auto arg : non_provider_output_defs_)
\*   if (provider_input_defs_.count(arg)) { AddCopyNode(arg, true); modified = true; }
ModifyGraphCopyFromHost ==
  /\ mpc = "copy_from_host"
  /\ LET args == non_provider_output_defs_ \cap provider_input_defs_
         done == AddCopyNodes(graph_, replacements_, args, TRUE)
     IN /\ graph_' = done.graph
        /\ replacements_' = done.replacements
        /\ modified' = (modified \/ args # {})
  /\ mpc' = "copy_to_host"
  /\ UNCHANGED <<provider_nodes_, provider_input_defs_, provider_output_defs_,
                 non_provider_input_defs_, non_provider_output_defs_,
                 returned, pass_start, nonMemcpyVars>>

ModifyGraphCopyToHost_Renaming ==
  /\ mpc = "copy_to_host"
  /\ LET args == provider_output_defs_ \cap non_provider_input_defs_
         done == AddCopyNodes(graph_, replacements_, args, FALSE)
     IN /\ graph_' = ReplaceInProviderNodes(done.graph, done.replacements)
        /\ replacements_' = done.replacements
        /\ modified' = (modified \/ args # {})
  /\ mpc' = "replace"
  /\ UNCHANGED <<provider_nodes_, provider_input_defs_, provider_output_defs_,
                 non_provider_input_defs_, non_provider_output_defs_,
                 returned, pass_start, nonMemcpyVars>>

\* for (auto arg : provider_output_defs_)
\*   if (non_provider_input_defs_.count(arg)) { AddCopyNode(arg, false); modified = true; }
ModifyGraphCopyToHost ==
  /\ mpc = "copy_to_host"
  /\ LET args == provider_output_defs_ \cap non_provider_input_defs_
         done == AddCopyNodes(graph_, replacements_, args, FALSE)
     IN /\ graph_' = done.graph
        /\ replacements_' = done.replacements
        /\ modified' = (modified \/ args # {})
  /\ mpc' = "replace"
  /\ UNCHANGED <<provider_nodes_, provider_input_defs_, provider_output_defs_,
                 non_provider_input_defs_, non_provider_output_defs_,
                 returned, pass_start, nonMemcpyVars>>

\* for (auto p_node : provider_nodes_) p_node->ReplaceDefs(replacements_);
\* return modified;
ModifyGraphReplace ==
  /\ mpc = "replace"
  /\ graph_' = ReplaceInProviderNodes(graph_, replacements_)
  /\ returned' = Append(returned, modified)
  /\ mpc' = "ready"
  /\ UNCHANGED <<provider_nodes_, provider_input_defs_, provider_output_defs_,
                 non_provider_input_defs_, non_provider_output_defs_,
                 replacements_, modified, pass_start, nonMemcpyVars>>

\* The session is not the subject: it stays as constructed, its counter at
\* one of the values it can hold.
SessionUnused == SessionInit /\ current_num_runs_ = 0

InitMemcpy ==
  /\ SessionUnused
  /\ graph_ \in InputGraphs
  /\ provider_nodes_ = {}
  /\ provider_input_defs_ = {}
  /\ provider_output_defs_ = {}
  /\ non_provider_input_defs_ = {}
  /\ non_provider_output_defs_ = {}
  /\ replacements_ = NoReplacements
  /\ modified = FALSE
  /\ mpc = "ready"
  /\ returned = <<>>
  /\ pass_start = EmptyGraph
  /\ RefInit
  /\ FrameUnused
  /\ ConvUnused
  /\ AllocUnused

NextMemcpy ==
  \/ ModifyGraphDefs
  \/ ModifyGraphInitializers
  \/ ModifyGraphCopyFromHost
  \/ ModifyGraphCopyToHost
  \/ ModifyGraphReplace

SpecMemcpy == InitMemcpy /\ [][NextMemcpy]_vars

\* =====================================================================
\* Reference counting of the C API objects: ObjectBase<T>
\* (src/include/onnxruntime/core/framework/onnx_object_cxx.h) and
\* MkldnnProviderFactory
\* (src/onnxruntime/core/providers/mkldnn/mkldnn_provider_factory.cc).
\*
\* Holders are threads that own references to an object.  A holder that
\* owns a reference may call AddRef, which makes one more reference (for
\* itself or handed to another holder), and may give a reference up by
\* calling Release.  Release is two steps: the atomic decrement with its
\* test of the new value, and the delete when the test found 0.
\* =====================================================================
MaxAddRefs == 3      \* AddRef calls made in all

\* ++this_ptr->ref_count;
AddRef(o, h, to) ==
  /\ addrefs < MaxAddRefs
  /\ held[o][h] >= 1
  /\ rel[o][h] = NoRelease
  /\ ref_count' = [ref_count EXCEPT ![o] = @ + 1]
  /\ held' = [held EXCEPT ![o][to] = @ + 1]
  /\ addrefs' = addrefs + 1
  /\ UNCHANGED <<deleted, rel, nonRefVars>>

ReleaseDecrement_PostDecrement(o, h) ==
  /\ held[o][h] >= 1
  /\ rel[o][h] = NoRelease
  /\ ref_count' = [ref_count EXCEPT ![o] = @ - 1]
  /\ rel' = [rel EXCEPT ![o][h] = ref_count[o]]
  /\ held' = [held EXCEPT ![o][h] = @ - 1]
  /\ UNCHANGED <<deleted, addrefs, nonRefVars>>

\* --this_ptr->ref_count == 0: one atomic decrement that yields the new
\* value; the caller has given its reference up.
ReleaseDecrement(o, h) ==
  /\ held[o][h] >= 1
  /\ rel[o][h] = NoRelease
  /\ ref_count' = [ref_count EXCEPT ![o] = @ - 1]
  /\ rel' = [rel EXCEPT ![o][h] = ref_count[o] - 1]
  /\ held' = [held EXCEPT ![o][h] = @ - 1]
  /\ UNCHANGED <<deleted, addrefs, nonRefVars>>

\* if (... == 0) delete this_ptr; return 0;
ReleaseDelete(o, h) ==
  /\ rel[o][h] # NoRelease
  /\ deleted' = [deleted EXCEPT ![o] = IF rel[o][h] = 0 THEN @ + 1 ELSE @]
  /\ rel' = [rel EXCEPT ![o][h] = NoRelease]
  /\ UNCHANGED <<ref_count, held, addrefs, nonRefVars>>

OrtAddRefImpl(h, to) == AddRef("ObjectBase", h, to)
OrtReleaseImpl(h) == ReleaseDecrement("ObjectBase", h)
OrtReleaseImplDelete(h) == ReleaseDelete("ObjectBase", h)
AddRefMkldnn(h, to) == AddRef("MkldnnProviderFactory", h, to)
ReleaseMkldnn(h) == ReleaseDecrement("MkldnnProviderFactory", h)
ReleaseMkldnnDelete(h) == ReleaseDelete("MkldnnProviderFactory", h)

InitRefCount ==
  /\ SessionUnused /\ MemcpyUnused /\ RefInit /\ FrameUnused /\ ConvUnused
  /\ AllocUnused

NextRefCount ==
  \/ \E h \in Holders, to \in Holders : OrtAddRefImpl(h, to)
  \/ \E h \in Holders : OrtReleaseImpl(h)
  \/ \E h \in Holders : OrtReleaseImplDelete(h)
  \/ \E h \in Holders, to \in Holders : AddRefMkldnn(h, to)
  \/ \E h \in Holders : ReleaseMkldnn(h)
  \/ \E h \in Holders : ReleaseMkldnnDelete(h)

SpecRefCount == InitRefCount /\ [][NextRefCount]_vars

\* =====================================================================
\* ExecutionFrame: the table of the MLValues of one run
\* (src/onnxruntime/core/framework/execution_frame.h).
\*
\* all_values_ is a std::vector<MLValue>; the mlvalue index i of the code
\* is position i + 1 of the sequence.  An MLValue is either empty (not
\* allocated) or holds a tensor of an element type and a shape.  The
\* constructor and the allocation and release methods are defined outside
\* the header; the two getters are defined in it.
\* =====================================================================
MaxValues == 3       \* MLValues of the frame, at most

Unallocated == [allocated |-> FALSE]
Shapes == {<<1>>, <<2, 2>>}
Tensor(element_type, shape) ==
  [allocated |-> TRUE, element_type |-> element_type, shape |-> shape]

\* ORT_ENFORCE(condition) throws when the condition is false.
EnforceFailure == [thrown |-> "ORT_ENFORCE failed"]

\* The mlvalue indices callers pass: from below 0 to beyond the largest
\* frame.
Indices == -1 .. MaxValues

InRange(mlvalue_index) ==
  mlvalue_index >= 0 /\ mlvalue_index < Len(all_values_)

GetMLValue_FailsUnallocated(mlvalue_index) ==
  IF InRange(mlvalue_index) /\ all_values_[mlvalue_index + 1].allocated
    THEN [value |-> all_values_[mlvalue_index + 1]]
    ELSE EnforceFailure

\* const MLValue& GetMLValue(int mlvalue_index) const
\*   ORT_ENFORCE(mlvalue_index >= 0 &&
\*               static_cast<size_t>(mlvalue_index) < all_values_.size());
\*   return all_values_[mlvalue_index];
GetMLValue(mlvalue_index) ==
  IF mlvalue_index >= 0 /\ mlvalue_index < Len(all_values_)
    THEN [value |-> all_values_[mlvalue_index + 1]]
    ELSE EnforceFailure

\* MLValue& GetMutableMLValue(int mlvalue_index): the same test, the same
\* element.
GetMutableMLValue(mlvalue_index) ==
  IF mlvalue_index >= 0 /\ mlvalue_index < Len(all_values_)
    THEN [value |-> all_values_[mlvalue_index + 1]]
    ELSE EnforceFailure

\* A caller reads the value at an index.
CallGetMLValue(index) ==
  /\ frame_call' = [op |-> "GetMLValue", index |-> index,
                    outcome |-> GetMLValue(index)]
  /\ UNCHANGED <<all_values_, ever_bound, nonFrameVars>>

CallGetMutableMLValue(index) ==
  /\ frame_call' = [op |-> "GetMutableMLValue", index |-> index,
                    outcome |-> GetMutableMLValue(index)]
  /\ UNCHANGED <<all_values_, ever_bound, nonFrameVars>>

\* AllocateMLValueTensorSelfOwnBuffer(mlvalue_index, element_type, location,
\* shape): the value at the index is bound to a tensor of that element
\* type and shape.
AllocateMLValueTensorSelfOwnBuffer(mlvalue_index, element_type, shape) ==
  /\ InRange(mlvalue_index)
  /\ ~all_values_[mlvalue_index + 1].allocated
  /\ all_values_' = [all_values_ EXCEPT ![mlvalue_index + 1] =
                                          Tensor(element_type, shape)]
  /\ ever_bound' = ever_bound \cup {mlvalue_index}
  /\ UNCHANGED <<frame_call, nonFrameVars>>

\* ReleaseMLValue(mlvalue_idx): the value at the index is empty again.
ReleaseMLValue(mlvalue_idx) ==
  /\ InRange(mlvalue_idx)
  /\ all_values_[mlvalue_idx + 1].allocated
  /\ all_values_' = [all_values_ EXCEPT ![mlvalue_idx + 1] = Unallocated]
  /\ UNCHANGED <<ever_bound, frame_call, nonFrameVars>>

\* ExecutionFrame(feeds, output_names, fetches, session_state): one empty
\* MLValue for each value of the graph.
InitFrame ==
  /\ SessionUnused /\ MemcpyUnused /\ RefInit /\ ConvUnused /\ AllocUnused
  /\ \E n \in 0..MaxValues : all_values_ = [i \in 1..n |-> Unallocated]
  /\ ever_bound = {}
  /\ frame_call = NoFrameCall

NextFrame ==
  \/ \E i \in Indices : CallGetMLValue(i)
  \/ \E i \in Indices : CallGetMutableMLValue(i)
  \/ \E i \in Indices, shape \in Shapes :
       AllocateMLValueTensorSelfOwnBuffer(i, "float", shape)
  \/ \E i \in Indices : ReleaseMLValue(i)

SpecFrame == InitFrame /\ [][NextFrame]_vars

\* =====================================================================
\* ComputePadAndOutputShape and ConvBase::InferOutputShape
\* (src/onnxruntime/core/providers/cpu/nn/conv_base.h), for an input with
\* one spatial dimension: the vectors strides, kernel_shape and dilations
\* have one element and pads has two, so that the index test of
\* InferOutputShape passes.
\*
\* The arguments are int64_t; within the bounds below no operation leaves
\* the range of int64_t, and the float of the NOTSET branch represents
\* every value exactly.
\* =====================================================================
MaxDim == 6          \* in_dim, at most
MaxStride == 3       \* stride, at most
MaxKernel == 4       \* kernel, at most

\* Division of int64_t truncates towards zero (b > 0).
TruncDiv(a, b) == IF a >= 0 THEN a \div b ELSE -((-a) \div b)

\* math::roundUpPow2<int64_t, 2>(a): a rounded up to a multiple of 2.
roundUpPow2(a) == a + (a % 2)

AutoPadTypes == {"NOTSET", "VALID", "SAME_UPPER", "SAME_LOWER", "other"}
InvalidArgument == "pad type not supported."
InvalidInputShape == "Invalid input shape"
DilationNotSupported == "ORT_ENFORCE: Dilation not supported"

\* ComputePadAndOutputShape<ForceSymmetricAutoPadding>(in_dim, stride,
\* kernel, dilation, pad_type, &pad_head, &pad_tail, &out_dim), with the
\* values pad_head, pad_tail and out_dim hold at the call.
ComputePadAndOutputShape(ForceSymmetricAutoPadding, in_dim, stride, kernel, dilation, pad_type, pad_head, pad_tail, out_dim) ==
  LET dkernel == dilation * (kernel - 1) + 1
      legacy_target_size == TruncDiv(in_dim + stride - 1, stride)
      pad_needed == (legacy_target_size - 1) * stride + kernel - in_dim
      same_out_dim == TruncDiv(in_dim + pad_needed - dkernel, stride) + 1
      padding == IF ForceSymmetricAutoPadding THEN roundUpPow2(pad_needed)
                 ELSE pad_needed
      head == IF pad_type = "SAME_LOWER" THEN TruncDiv(padding + 1, 2)
              ELSE TruncDiv(padding, 2)
  IN CASE pad_type = "NOTSET" ->
            [status |-> StatusOK, pad_head |-> pad_head, pad_tail |-> pad_tail,
             out_dim |-> TruncDiv(in_dim + pad_head + pad_tail - dkernel
                                    + stride, stride)]
       [] pad_type = "VALID" ->
            [status |-> StatusOK, pad_head |-> 0, pad_tail |-> 0,
             out_dim |-> TruncDiv(in_dim - dkernel, stride) + 1]
       [] pad_type \in {"SAME_UPPER", "SAME_LOWER"} ->
            IF dilation # 1
              THEN [status |-> DilationNotSupported, pad_head |-> pad_head,
                    pad_tail |-> pad_tail, out_dim |-> out_dim]
              ELSE [status |-> StatusOK, pad_head |-> head,
                    pad_tail |-> padding - head, out_dim |-> same_out_dim]
       [] OTHER ->
            [status |-> InvalidArgument, pad_head |-> pad_head,
             pad_tail |-> pad_tail, out_dim |-> out_dim]

\* The body of the loop of InferOutputShape for dim = 0:
\*   int64_t dim_size = 0;
\*   ORT_RETURN_IF_ERROR(ComputePadAndOutputShape<...>(..., &dim_size));
\*   if (dim_size <= 0) return Status(INVALID_ARGUMENT, "Invalid input shape");
\*   output_shape->push_back(dim_size);
InferOutputShape(a) ==
  LET c == ComputePadAndOutputShape(a.force, a.in_dim, a.stride, a.kernel,
                                    a.dilation, a.pad_type, a.pad_head,
                                    a.pad_tail, 0)
  IN IF ~IsOK(c.status) THEN [c EXCEPT !.out_dim = 0]
     ELSE IF c.out_dim <= 0
            THEN [c EXCEPT !.status = InvalidInputShape, !.out_dim = 0]
     ELSE c

\* A kernel infers the output shape for the arguments it was given.
CallInferOutputShape ==
  /\ conv_result = NoConvResult
  /\ conv_result' = InferOutputShape(conv_args)
  /\ UNCHANGED <<conv_args, nonConvVars>>

ConvArgs ==
  [force : BOOLEAN, in_dim : 1..MaxDim, stride : 1..MaxStride,
   kernel : 1..MaxKernel, dilation : {1, 2}, pad_type : AutoPadTypes,
   pad_head : {0, 1}, pad_tail : {0, 1}]

InitConv ==
  /\ SessionUnused /\ MemcpyUnused /\ RefInit /\ FrameUnused /\ AllocUnused
  /\ conv_args \in ConvArgs
  /\ conv_result = NoConvResult

NextConv == CallInferOutputShape

SpecConv == InitConv /\ [][NextConv]_vars

\* =====================================================================
\* CreateAllocator (src/onnxruntime/core/framework/allocatormgr.cc) and the
\* allocators it returns.  The device allocator and BFCArena are modelled
\* from section 4.1 of the design: sizes are counted in units of the
\* smallest size class, and the device allocator hands out blocks at
\* addresses it never hands out twice.
\* =====================================================================
MaxRequest == 3       \* the size of a request, at most
DeviceMemory == 6     \* what the device allocator can have handed out
MaxAllocCalls == 4    \* calls of Alloc and Free on the allocator, at most

MinSplit == 1         \* the minimum useful size of a remainder
InitialExtension == 1 \* the size of the first extension

RECURSIVE SumSizes(_)
SumSizes(rs) == IF rs = <<>> THEN 0 ELSE Head(rs).size + SumSizes(Tail(rs))

\* IDeviceAllocator::Alloc: a block of exactly size, if the device has it
\* beside the blocks handed out and not freed.
DeviceCanAlloc(size) ==
  SumSizes(SelectSeq(regions, LAMBDA r : ~r.freed)) + size <= DeviceMemory
DeviceBlock(size, in_use, requested) ==
  [region |-> Len(regions) + 1, addr |-> SumSizes(regions), size |-> size,
   in_use |-> in_use, requested |-> requested]

\* AllocatorPtr CreateAllocator(DeviceAllocatorRegistrationInfo info, ...)
CreateAllocator(info) ==
  IF info.allows_arena
    THEN [kind |-> "BFCArena", max_mem |-> info.max_mem,
          curr_extension |-> InitialExtension]
    ELSE [kind |-> "device"]

\* The bin size classes, and the class a request is rounded up to.
SizeClasses == {2 ^ k : k \in 0..MaxRequest}
RoundedBytes(size) ==
  CHOOSE c \in SizeClasses :
    c >= size /\ \A d \in SizeClasses : d >= size => c <= d

\* The bin a free chunk is kept in: the largest class it fills.
BinOf(size) ==
  CHOOSE c \in SizeClasses :
    c <= size /\ \A d \in SizeClasses : d <= size => d <= c

\* The scan of the bins from the class of the request upwards: the first
\* bin with a chunk that fits, and in it the best fit (lowest address
\* among equals).
FindChunk(cs, bytes) ==
  LET fit(class) == {c \in cs : /\ ~c.in_use
                                /\ BinOf(c.size) = class
                                /\ c.size >= bytes}
      classes == {class \in SizeClasses :
                    class >= BinOf(bytes) /\ fit(class) # {}}
      first == CHOOSE class \in classes : \A d \in classes : class <= d
  IN CHOOSE c \in fit(first) :
       \A d \in fit(first) :
         c.size < d.size \/ (c.size = d.size /\ c.addr <= d.addr)
HasFit(cs, bytes) ==
  \E c \in cs : ~c.in_use /\ BinOf(c.size) >= BinOf(bytes) /\ c.size >= bytes

SplitChunk_RemainderAtHead(c, bytes, size) ==
  IF c.size - bytes >= MinSplit
    THEN {[c EXCEPT !.size = bytes, !.in_use = TRUE, !.requested = size],
          [c EXCEPT !.size = c.size - bytes]}
    ELSE {[c EXCEPT !.in_use = TRUE, !.requested = size]}

\* The chunk is split if the remainder is of a useful size; the allocated
\* portion is marked used.
SplitChunk(c, bytes, size) ==
  IF c.size - bytes >= MinSplit
    THEN {[c EXCEPT !.size = bytes, !.in_use = TRUE, !.requested = size],
          [c EXCEPT !.addr = c.addr + bytes, !.size = c.size - bytes]}
    ELSE {[c EXCEPT !.in_use = TRUE, !.requested = size]}

AllocFromChunks(cs, bytes, size) ==
  LET c == FindChunk(cs, bytes)
  IN (cs \ {c}) \cup SplitChunk(c, bytes, size)

\* The size of the next extension: the current extension size, or the
\* request if that is larger.
ExtensionSize(bytes) ==
  IF allocator.curr_extension >= bytes THEN allocator.curr_extension
  ELSE bytes

\* Extension sizes double up to the configured ceiling.
GrownExtension ==
  IF 2 * allocator.curr_extension <= allocator.max_mem
    THEN 2 * allocator.curr_extension
    ELSE allocator.max_mem

\* BFCArena::Alloc(size)
ArenaAlloc(size) ==
  LET bytes == RoundedBytes(size)
      ext == ExtensionSize(bytes)
      count == alloc_call.count + 1
  IN /\ allocator.kind = "BFCArena"
     /\ alloc_call.count < MaxAllocCalls
     /\ IF HasFit(chunks, bytes)
          THEN /\ chunks' = AllocFromChunks(chunks, bytes, size)
               /\ alloc_call' = [op |-> "Alloc", count |-> count,
                                 addr |-> FindChunk(chunks, bytes).addr,
                                 size |-> size]
               /\ UNCHANGED <<allocator, regions>>
          ELSE IF DeviceCanAlloc(ext)
            THEN /\ regions' = Append(regions, [size |-> ext, freed |-> FALSE])
                 /\ allocator' = [allocator EXCEPT
                                    !.curr_extension = GrownExtension]
                 /\ chunks' = AllocFromChunks(
                                chunks \cup {DeviceBlock(ext, FALSE, 0)},
                                bytes, size)
                 /\ alloc_call' = [op |-> "Extend", count |-> count,
                                   addr |-> SumSizes(regions), size |-> size]
          ELSE /\ alloc_call' = [op |-> "OutOfMemory", count |-> count,
                                 addr |-> 0, size |-> size]
               /\ UNCHANGED <<allocator, regions, chunks>>
     /\ UNCHANGED nonAllocVars

\* The free physical neighbours of a chunk, in its block.
Neighbours(c) ==
  {d \in chunks : /\ ~d.in_use
                  /\ d.region = c.region
                  /\ (d.addr + d.size = c.addr \/ c.addr + c.size = d.addr)}

\* The chunk, marked free and coalesced with its free neighbours.
Coalesced(c) ==
  LET all == Neighbours(c) \cup {c}
      first == CHOOSE d \in all : \A e \in all : d.addr <= e.addr
      last == CHOOSE d \in all : \A e \in all : d.addr >= e.addr
  IN [region |-> c.region, addr |-> first.addr,
      size |-> last.addr + last.size - first.addr,
      in_use |-> FALSE, requested |-> 0]

\* BFCArena::Free(p), for the address of a buffer in use
ArenaFree(c) ==
  /\ allocator.kind = "BFCArena"
  /\ alloc_call.count < MaxAllocCalls
  /\ c \in chunks /\ c.in_use
  /\ chunks' = (chunks \ (Neighbours(c) \cup {c})) \cup {Coalesced(c)}
  /\ alloc_call' = [op |-> "Free", count |-> alloc_call.count + 1,
                    addr |-> c.addr, size |-> c.size]
  /\ UNCHANGED <<allocator, regions, nonAllocVars>>

\* IDeviceAllocator::Alloc(size), on the allocator returned as it is
DeviceAlloc(size) ==
  /\ allocator.kind = "device"
  /\ alloc_call.count < MaxAllocCalls
  /\ IF DeviceCanAlloc(size)
       THEN /\ regions' = Append(regions, [size |-> size, freed |-> FALSE])
            /\ chunks' = chunks \cup {DeviceBlock(size, TRUE, size)}
            /\ alloc_call' = [op |-> "Alloc", count |-> alloc_call.count + 1,
                              addr |-> SumSizes(regions), size |-> size]
       ELSE /\ alloc_call' = [op |-> "OutOfMemory",
                              count |-> alloc_call.count + 1,
                              addr |-> 0, size |-> size]
            /\ UNCHANGED <<regions, chunks>>
  /\ UNCHANGED <<allocator, nonAllocVars>>

\* IDeviceAllocator::Free(p), on the allocator returned as it is
DeviceFree(c) ==
  /\ allocator.kind = "device"
  /\ alloc_call.count < MaxAllocCalls
  /\ c \in chunks /\ c.in_use
  /\ chunks' = chunks \ {c}
  /\ regions' = [regions EXCEPT ![c.region].freed = TRUE]
  /\ alloc_call' = [op |-> "Free", count |-> alloc_call.count + 1,
                    addr |-> c.addr, size |-> c.size]
  /\ UNCHANGED <<allocator, nonAllocVars>>

InitAlloc ==
  /\ SessionUnused /\ MemcpyUnused /\ RefInit /\ FrameUnused /\ ConvUnused
  /\ \E info \in [allows_arena : BOOLEAN, max_mem : {2, 4}] :
       allocator = CreateAllocator(info)
  /\ regions = <<>>
  /\ chunks = {}
  /\ alloc_call = NoAllocCall

NextAlloc ==
  \/ \E size \in 1..MaxRequest : ArenaAlloc(size)
  \/ \E c \in chunks : ArenaFree(c)
  \/ \E size \in 1..MaxRequest : DeviceAlloc(size)
  \/ \E c \in chunks : DeviceFree(c)

SpecAlloc == InitAlloc /\ [][NextAlloc]_vars

\* ================================================================ claims
InLoadOrInitialize(t) ==
  pc[t] \in {"load_commit", "init_check", "init_transform", "init_kernels"}
PastRunCheck(t) == pc[t] \in {"run_sched", "run_wait"}

\* The executor closures dispatched and not yet completed.
RunsInFlight == {r \in DOMAIN runs : runs[r].exec # "ended"}

\* C1: Initialize() on a session on which no Load() has succeeded ends at
\* its first test with the "Model was not loaded." failure: the call goes
\* through neither TransformGraph nor ConstructKernels, the graph and the
\* kernel table are untouched and is_inited_ stays false.
C1_InitializeBeforeLoadFails ==
  [][\A t \in Threads :
       (pc[t] = "init_check" /\ ~everLoaded /\ pc'[t] # pc[t]) =>
         /\ pc'[t] = "idle"
         /\ result' = [op |-> "Initialize", st |-> NotLoaded]
         /\ ~IsOK(result'.st)
         /\ ~is_inited_ /\ ~is_inited_'
         /\ p_graph_' = p_graph_
         /\ session_kernels_' = session_kernels_]_vars

C1_Witness ==
  /\ result = [op |-> "Initialize", st |-> NotLoaded]
  /\ ~everLoaded
  /\ ~is_inited_
  /\ p_graph_ = NoGraph

\* C2: when the parse fails, Load returns the parse failure and the loaded
\* flag, the stored model, the session graph and the kernel table are as
\* before the call; when it succeeds, the session is loaded and stores the
\* model and its graph.
C2_LoadCommitsOnlyOnSuccess ==
  [][\A t \in Threads :
       (pc[t] = "load_commit" /\ pc'[t] # pc[t]) =>
         IF IsOK(local[t].st)
           THEN /\ is_model_loaded_'
                /\ model_' = local[t].tmp
                /\ p_graph_' = GraphOf(local[t].tmp)
                /\ result' = [op |-> "Load", st |-> StatusOK]
           ELSE /\ result' = [op |-> "Load", st |-> ParseFail]
                /\ UNCHANGED <<is_model_loaded_, is_inited_, model_, p_graph_,
                               session_kernels_>>]_vars

C2_Witness ==
  /\ result = [op |-> "Load", st |-> ParseFail]
  /\ is_model_loaded_
  /\ model_ # NoModel
  /\ p_graph_.model = model_

\* C3: a Run on a session that is not initialized ends at its first test
\* with a failure status, and no executor is dispatched for it.
C3_RunBeforeInitializeFails ==
  [][\A t \in Threads :
       (pc[t] = "run_check" /\ ~is_inited_ /\ pc'[t] # pc[t]) =>
         /\ pc'[t] = "idle"
         /\ result'.op = "Run"
         /\ ~IsOK(result'.st)
         /\ result'.st # NotImplemented
         /\ UNCHANGED <<runs, queue>>]_vars

\* C4: GetCurrentNumRuns() is the number of Run calls in flight (between
\* the increment before dispatch and the return): 0 on a fresh session, 0
\* whenever every started Run has ended.
C4_NumRunsIsRunsInFlight ==
  GetCurrentNumRuns = Cardinality({t \in Threads : pc[t] = "run_wait"})

\* C5: a Run with a positive timeout whose executor has not finished when
\* the wait gives up returns the timeout status, decrements the run count
\* and leaves the dispatched executor running.
C5_TimeoutReturnsTimeoutStatus ==
  [][\A t \in Threads :
       (/\ pc[t] = "run_wait"
        /\ local[t].timeout > 0
        /\ ~runs[local[t].run].notified
        /\ pc'[t] = "idle") =>
         /\ result' = [op |-> "Run", st |-> Timeout]
         /\ current_num_runs_' = current_num_runs_ - 1
         /\ local[t].run \in DOMAIN runs'
         /\ runs'[local[t].run].exec = runs[local[t].run].exec]_vars

\* C6: a Run without timeout does not return before the executor scheduled
\* for it has finished Execute and signalled, and it returns the status
\* that executor produced.
C6_RunReturnsItsExecutorsStatus ==
  [][\A t \in Threads :
       (pc[t] = "run_wait" /\ local[t].timeout = 0 /\ pc'[t] = "idle") =>
         /\ runs[local[t].run].exec = "ended"
         /\ result' = [op |-> "Run", st |-> runs[local[t].run].produced]]_vars

\* C7: the transitions Created -> Loaded -> Initialized happen once: after
\* a successful Load no step replaces the stored model or graph, and after
\* a successful Initialize no step rewrites the graph again or goes through
\* kernel construction again.
C7_LifecycleIsOneShot ==
  [][/\ everLoaded =>
          (model_' = model_ /\ p_graph_'.model = p_graph_.model)
     /\ is_inited_ =>
          /\ p_graph_' = p_graph_
          /\ \A t \in Threads :
               ~(pc[t] = "init_kernels" /\ pc'[t] # pc[t])]_vars

\* C8: while a Run is in flight (its executor dispatched and not
\* completed) no step of Load or Initialize changes the model, the graph or
\* the kernel table.
C8_NoMutationWhileRunInFlight ==
  [][RunsInFlight # {} =>
       UNCHANGED <<model_, p_graph_, session_kernels_>>]_vars

\* C9: at most one thread is inside the body of Load or Initialize, and a
\* thread inside such a body (where is_model_loaded_ and is_inited_ are read
\* and written) holds session_mutex_.
C9_LoadInitializeExclusive ==
  /\ Cardinality({t \in Threads : InLoadOrInitialize(t)}) <= 1
  /\ \A t \in Threads : InLoadOrInitialize(t) => session_mutex_ = t

C9_Witness ==
  \E t \in Threads : \E u \in Threads \ {t} :
    /\ pc[t] = "init_kernels"
    /\ session_mutex_ = t
    /\ everLoaded
    /\ pc[u] = "idle"
    /\ calls < MaxCalls

\* C10: a Run that is past its first scope (dispatching, executing, waiting)
\* does not hold session_mutex_; two Runs on the initialized session can be
\* in flight together (the witness: both executors executing, count 2).
C10_RunHoldsNoLockInFlight ==
  \A t \in Threads : PastRunCheck(t) => session_mutex_ # t

C10_Witness ==
  /\ is_inited_
  /\ \A t \in Threads :
       /\ pc[t] = "run_wait"
       /\ runs[local[t].run].exec = "executing"
  /\ session_mutex_ = NoThread
  /\ GetCurrentNumRuns = 2

\* The operator type of the first node whose kernel lookup misses.
MissingOps(nodes) ==
  {i \in 1..Len(nodes) : CreateOpKernel(nodes[i]) = NullKernel}
FirstMissing(nodes) ==
  nodes[CHOOSE i \in MissingOps(nodes) : \A j \in MissingOps(nodes) : i <= j]

\* A kernel-creation-failure status whose message names the operator type.
KernelFailNaming(opId) == KernelFail \o ": " \o opId

\* C11: when the kernel lookup misses for a node of the graph, at whatever
\* position, Initialize returns a kernel-creation-failure status that names
\* the missing operator type, and is_inited_ is not set.
C11_KernelMissNamesOperator ==
  [][\A t \in Threads :
       (/\ pc[t] = "init_kernels"
        /\ pc'[t] # pc[t]
        /\ MissingOps(MainGraph(p_graph_.model)) # {}) =>
         /\ pc'[t] = "idle"
         /\ result' = [op |-> "Initialize",
                       st |-> KernelFailNaming(
                                FirstMissing(MainGraph(p_graph_.model)))]
         /\ UNCHANGED is_inited_]_vars

\* C12: a Run whose executor returned a failure status returns that failure
\* to its caller; the loaded and initialized flags, the model, the graph and
\* the kernel table are as before, the run count goes back by the one the
\* call added, and the caller holds no lock that would keep a next Run out.
C12_FailedRunLeavesSession ==
  [][\A t \in Threads :
       (/\ pc[t] = "run_wait"
        /\ pc'[t] = "idle"
        /\ runs[local[t].run].produced = ExecFail) =>
         /\ result' = [op |-> "Run", st |-> ExecFail]
         /\ UNCHANGED <<is_model_loaded_, is_inited_, model_, p_graph_,
                        session_kernels_>>
         /\ current_num_runs_' = current_num_runs_ - 1
         /\ session_mutex_' # t]_vars

\* ------------------------------------------------ the memcpy transformer
IsMemcpy(n) == n.op \in {"MemcpyFromHost", "MemcpyToHost"}
Refs(n) == {arg \in Elems(n.inputs) \cup Elems(n.outputs) : Exists(arg)}
PassDone == mpc = "ready" /\ returned # <<>>

\* C13: after ModifyGraph for provider B no NodeArg is referenced, as input
\* or output, both by a node assigned to B that is not a Memcpy node and by
\* a node assigned to another provider.
C13_NoDefSharedAcrossBoundary ==
  PassDone =>
    \A n \in graph_.nodes : \A o \in graph_.nodes :
      (n.provider = provider_ /\ ~IsMemcpy(n) /\ o.provider # provider_) =>
        Refs(n) \cap Refs(o) = {}

\* The defs a node of provider B reads from, or writes to, device memory.
DeviceInputs(n) ==
  {n.inputs[i] : i \in DOMAIN n.inputs \ SearchKernelRegistry(n).cpu_inputs}
DeviceOutputs(n) ==
  {n.outputs[i] : i \in DOMAIN n.outputs \ SearchKernelRegistry(n).cpu_outputs}
ProviderNodes(g) == {n \in g.nodes : n.provider = provider_}

\* C14: a graph input that a node of provider B consumes gets a
\* MemcpyFromHost node reading it, and a graph output that a node of
\* provider B produces gets a MemcpyToHost node writing it, whether or not
\* a node outside B produces or consumes that NodeArg.
C14_GraphInputsOutputsGetCopies ==
  PassDone =>
    /\ \A arg \in pass_start.inputs :
         (\E n \in ProviderNodes(pass_start) : arg \in DeviceInputs(n)) =>
           \E c \in graph_.nodes :
             c.op = "MemcpyFromHost" /\ c.inputs = <<arg>>
    /\ \A arg \in pass_start.outputs :
         (\E n \in ProviderNodes(pass_start) : arg \in DeviceOutputs(n)) =>
           \E c \in graph_.nodes :
             c.op = "MemcpyToHost" /\ c.outputs = <<arg>>

\* C15: a ModifyGraph call on the graph that an earlier call for the same
\* provider has produced inserts no copy node, duplicates no initializer,
\* changes no def list and returns false.
C15_SecondPassChangesNothing ==
  (mpc = "ready" /\ Len(returned) >= 2) =>
    /\ returned[Len(returned)] = FALSE
    /\ graph_ = pass_start

\* C16: ModifyGraph returns true exactly when the call changed the graph
\* (inserted a copy node, duplicated an initializer or rewrote a def of a
\* provider node), also when the duplication of a shared initializer is
\* the only change.
C16_ReturnsWhetherGraphChanged ==
  PassDone => (returned[Len(returned)] <=> graph_ # pass_start)

\* The defs a node reads from host memory: every input of a node outside
\* provider B, the inputs of a B node that its kernel declares as CPU.
HostInputs(n) ==
  IF n.provider = provider_
    THEN {n.inputs[i] :
            i \in DOMAIN n.inputs \cap SearchKernelRegistry(n).cpu_inputs}
    ELSE {arg \in Elems(n.inputs) \cup Elems(n.implicit) : Exists(arg)}
ReadOnDevice(g, arg) == \E n \in ProviderNodes(g) : arg \in DeviceInputs(n)
ReadOnHost(g, arg) == \E n \in g.nodes : arg \in HostInputs(n)
NodeAfter(n) == CHOOSE m \in graph_.nodes : m.name = n.name
NewInitializers == graph_.initializers \ pass_start.initializers

HostOutputs(n) ==
  IF n.provider = provider_
    THEN {n.outputs[i] :
            i \in {j \in DOMAIN n.outputs \cap SearchKernelRegistry(n).cpu_outputs :
                     Exists(n.outputs[j])}}
    ELSE {arg \in Elems(n.outputs) : Exists(arg)}
CrossToDevice(g) ==
  {arg \in NodeArgs(g) : /\ \E n \in g.nodes : arg \in HostOutputs(n)
                         /\ ReadOnDevice(g, arg)}
CrossToHost(g) ==
  {arg \in NodeArgs(g) :
     /\ \E n \in ProviderNodes(g) : arg \in DeviceOutputs(n) /\ Exists(arg)
     /\ ReadOnHost(g, arg)}
NewNodes == {n \in graph_.nodes : n.name \notin NodeNames(pass_start)}

C19_UnsupportedProviderFailsInitialize ==
  [][\A t \in Threads :
       (/\ pc[t] = "init_transform"
        /\ pc'[t] # pc[t]
        /\ ApplyRaises(p_graph_.model)) =>
         /\ pc'[t] = "idle"
         /\ result'.op = "Initialize"
         /\ ~IsOK(result'.st)
         /\ result'.st # MemcpyException
         /\ UNCHANGED is_inited_]_vars

\* ------------------------------------------------- reference counting
\* The references to o that exist: those the holders own.
References(o) == held[o]["h1"] + held[o]["h2"]
InRelease(o) == {h \in Holders : rel[o][h] # NoRelease}

\* C20: the count of an object starts at 1; in every interleaving of
\* AddRef and Release calls the object is deleted at most once, only by
\* the Release whose decrement brought the count to 0, never while a
\* holder still owns a reference, and it has been deleted once every
\* reference has been released.
C20_DestroyedExactlyOnceAtZero ==
  \A o \in Objects :
    /\ ref_count[o] = References(o)
    /\ deleted[o] <= 1
    /\ Cardinality({h \in InRelease(o) : rel[o][h] = 0}) + deleted[o] <= 1
    /\ \A h \in InRelease(o) : rel[o][h] = 0 => ref_count[o] = 0
    /\ deleted[o] = 1 => (ref_count[o] = 0 /\ References(o) = 0)
    /\ (References(o) = 0 /\ InRelease(o) = {}) => deleted[o] = 1

\* Both holders have owned references to the factory at once, and the
\* factory has been deleted by the last Release.
C20_Witness ==
  /\ deleted["MkldnnProviderFactory"] = 1
  /\ addrefs >= 2
  /\ References("MkldnnProviderFactory") = 0
  /\ InRelease("MkldnnProviderFactory") = {}
  /\ held["ObjectBase"]["h2"] >= 1

\* ------------------------------------------------------ the execution frame
Getters == {"GetMLValue", "GetMutableMLValue"}

\* C21 as stated: a getter called with an index that has never been bound
\* to a value fails, also when the index is inside [0, all_values_.size()).
C21_UnboundIndexFails ==
  [][(/\ frame_call' # frame_call
      /\ frame_call'.op \in Getters
      /\ frame_call'.index \notin ever_bound) =>
        frame_call'.outcome = EnforceFailure]_vars

\* C21 (amended): a getter fails exactly when the index is outside
\* [0, all_values_.size()).  For an index inside, it returns the MLValue at
\* that index, which is the empty MLValue when the index has never been
\* allocated or has been released; it changes nothing in the frame.
C21_FailsExactlyOutOfRange ==
  [][(frame_call' # frame_call /\ frame_call'.op \in Getters) =>
       /\ frame_call'.outcome = EnforceFailure <=>
            ~(frame_call'.index \in 0 .. (Len(all_values_) - 1))
       /\ frame_call'.index \in 0 .. (Len(all_values_) - 1) =>
            frame_call'.outcome =
              [value |-> all_values_[frame_call'.index + 1]]
       /\ (frame_call'.index \in 0 .. (Len(all_values_) - 1)
             /\ frame_call'.index \notin ever_bound) =>
            frame_call'.outcome = [value |-> Unallocated]
       /\ UNCHANGED <<all_values_, ever_bound>>]_vars

\* A getter has been called with an index inside the range that was never
\* allocated, while another index of the frame is allocated, and has
\* returned the empty MLValue.
C21_Witness ==
  /\ frame_call.op \in Getters
  /\ InRange(frame_call.index)
  /\ frame_call.index \notin ever_bound
  /\ ever_bound # {}
  /\ frame_call.outcome = [value |-> Unallocated]

\* ------------------------------------ the memcpy transformer, continued
\* The nodes that compute a NodeArg, and whether the graph has a source for
\* it: a node that computes it, or the graph itself (input, initializer).
Producers(g, arg) == {n \in g.nodes : arg \in Elems(n.outputs)}
HasSource(g, arg) ==
  Producers(g, arg) # {} \/ arg \in g.inputs \/ arg \in g.initializers
UniquelyComputed(g) ==
  \A arg \in NodeArgs(g) : Exists(arg) => Cardinality(Producers(g, arg)) <= 1

\* C23: when every NodeArg of the graph handed to the pass is computed by
\* at most one node, the same is true after the pass, and every NodeArg
\* that had a source before the pass or that the pass introduced has a
\* source afterwards, also when a B kernel declares an output as CPU memory
\* and another B node consumes that output.
C23_EveryArgComputedOnce ==
  (PassDone /\ UniquelyComputed(pass_start)) =>
    /\ UniquelyComputed(graph_)
    /\ \A arg \in NodeArgs(graph_) :
         (Exists(arg) /\ (HasSource(pass_start, arg)
                            \/ arg \notin NodeArgs(pass_start))) =>
           HasSource(graph_, arg)
    /\ \A arg \in NodeArgs(pass_start) :
         (Exists(arg) /\ HasSource(pass_start, arg)) => HasSource(graph_, arg)

\* C24: no step of the pass changes a node that is not assigned to
\* provider B, and none changes a copy node that this call has inserted:
\* the def lists that are rewritten are those of the nodes collected in
\* provider_nodes_ while classifying.
C24_OnlyCollectedNodesRewritten ==
  [][/\ \A n \in graph_.nodes :
          (n.provider # provider_ \/ n.name \notin NodeNames(pass_start')) =>
            n \in graph_'.nodes
     /\ \A n \in graph_.nodes :
          n \notin graph_'.nodes => n.name \in provider_nodes_]_vars

\* A first pass is over that has inserted a copy node and renamed a def of
\* a B node, while a node outside B still refers to the NodeArg that was
\* replaced in the B nodes.
C24_Witness ==
  /\ PassDone /\ Len(returned) = 1
  /\ NewNodes # {}
  /\ \E n \in ProviderNodes(pass_start) : n \notin graph_.nodes
  /\ \E n \in graph_.nodes :
       /\ n.provider # provider_
       /\ n \in pass_start.nodes
       /\ Refs(n) \cap DOMAIN replacements_ # {}

\* A step that rewrites a def list of a node, and one that adds a node.
RewritesSomeNode == ~(graph_.nodes \subseteq graph_'.nodes)
AddsSomeNode == NodeNames(graph_') # NodeNames(graph_)

\* C25 as stated: a def list of a B node is rewritten only by the step that
\* follows the last AddCopyNode call, the repointing of duplicated
\* initializers included.
C25_AllRewritesAfterCopyNodes ==
  [][RewritesSomeNode => mpc = "replace"]_vars

\* C25 (amended): copy nodes are created only by the two AddCopyNode loops,
\* and while these run no def list of any node is rewritten.  The renamings
\* recorded by AddCopyNode are applied to the B nodes after the last
\* AddCopyNode call; the repointing of duplicated initializers to their
\* clones is applied by ProcessInitializers, after the classification and
\* before the first AddCopyNode call, and rewrites inputs only.
C25_NoRewriteWhileCopyNodesCreated ==
  [][/\ AddsSomeNode => mpc \in {"copy_from_host", "copy_to_host"}
     /\ mpc \in {"copy_from_host", "copy_to_host"} => ~RewritesSomeNode
     /\ RewritesSomeNode =>
          \/ mpc = "replace"
          \/ /\ mpc = "initializers"
             /\ NodeNames(graph_) = NodeNames(pass_start)
             /\ \A n \in graph_.nodes : \E m \in graph_'.nodes :
                  /\ m.name = n.name /\ m.outputs = n.outputs
                  /\ \A i \in DOMAIN n.inputs :
                       \/ m.inputs[i] = n.inputs[i]
                       \/ /\ n.inputs[i] \in graph_.initializers
                          /\ m.inputs[i] \in
                               graph_'.initializers \ graph_.initializers
     ]_vars

\* A first pass is over in which a B node was repointed to the clone of an
\* initializer, a copy node was created, and a B node was renamed to the
\* NodeArg the copy node introduced.
C25_Witness ==
  /\ PassDone /\ Len(returned) = 1
  /\ \E c \in NewInitializers : \E n \in ProviderNodes(graph_) :
       c \in Elems(n.inputs)
  /\ \E c \in NewNodes : \E n \in ProviderNodes(graph_) \ NewNodes :
       Refs(c) \cap Refs(n) \cap {replacements_[a] : a \in DOMAIN replacements_}
         # {}

\* The provider-side NodeArgs that the copy nodes of this call introduced.
IntroducedByCopyNodes == {replacements_[a] : a \in DOMAIN replacements_}

\* C26: an input of a B node that the node's kernel declares as explicitly
\* CPU memory is classified as a non-provider reference, and after the pass
\* the node still reads a host-side NodeArg there: the input has not been
\* renamed to a NodeArg that a copy node of the pass introduced on the
\* provider side, whatever else uses the same NodeArg.
C26_CpuDeclaredInputStaysOnHost ==
  PassDone =>
    \A n \in ProviderNodes(pass_start) :
      \A i \in DOMAIN n.inputs \cap SearchKernelRegistry(n).cpu_inputs :
        /\ n.inputs[i] \in non_provider_input_defs_
        /\ NodeAfter(n).inputs[i] \notin IntroducedByCopyNodes

\* ---------------------------------------------------- Run and its closure
\* C27: on every exit path of Run the closure scheduled for the call has
\* ended (has stored its status and called Notify) before the call leaves
\* its frame, so no closure that is queued or executing holds references
\* to a RunStatus, feeds or run options whose frame is gone.
C27_ClosureNeverOutlivesFrame ==
  \A r \in DOMAIN runs : runs[r].exec # "ended" => runs[r].frame = "live"

\* ------------------------------------------------------- convolution padding
SamePadTypes == {"SAME_UPPER", "SAME_LOWER"}
CeilDiv(a, b) == (a + b - 1) \div b

\* C28: for auto-pad SAME_UPPER or SAME_LOWER, dilation 1, no forced
\* symmetric padding and positive in_dim, stride and kernel, the call
\* succeeds with out_dim = ceil(in_dim / stride), pad_head and pad_tail not
\* negative, pad_head + pad_tail = (out_dim - 1) * stride + kernel - in_dim,
\* the two pads at most 1 apart, and the larger one at the head for
\* SAME_LOWER and at the tail for SAME_UPPER.
C28_SamePadsSplitTheNeededPadding ==
  (/\ conv_result # NoConvResult
   /\ conv_args.pad_type \in SamePadTypes
   /\ conv_args.dilation = 1
   /\ ~conv_args.force) =>
     /\ IsOK(conv_result.status)
     /\ conv_result.out_dim = CeilDiv(conv_args.in_dim, conv_args.stride)
     /\ conv_result.pad_head >= 0
     /\ conv_result.pad_tail >= 0
     /\ conv_result.pad_head + conv_result.pad_tail =
          (conv_result.out_dim - 1) * conv_args.stride + conv_args.kernel
            - conv_args.in_dim
     /\ IF conv_args.pad_type = "SAME_LOWER"
          THEN conv_result.pad_head - conv_result.pad_tail \in {0, 1}
          ELSE conv_result.pad_tail - conv_result.pad_head \in {0, 1}

\* ------------------------------------------------------------ the arena
LiveBuffers == {c \in chunks : c.in_use}
Overlap(c, d) == c.addr < d.addr + d.size /\ d.addr < c.addr + c.size

\* C22: on the arena CreateAllocator wraps around a device allocator that
\* allows arenas, after every sequence of Alloc and Free calls each buffer
\* in use is at least as large as requested, and no two buffers in use at
\* the same time overlap.
C22_BuffersFitAndNeverOverlap ==
  allocator.kind = "BFCArena" =>
    /\ \A c \in LiveBuffers : c.size >= c.requested
    /\ \A c, d \in LiveBuffers : c # d => ~Overlap(c, d)

\* Two buffers of one block are in use, the later one taken from a free
\* chunk of the block (what a split or a Free left behind).
C22_Witness ==
  /\ allocator.kind = "BFCArena"
  /\ alloc_call.op = "Alloc"
  /\ alloc_call.count = MaxAllocCalls
  /\ \E c, d \in LiveBuffers :
       c # d /\ c.region = d.region /\ d.addr = alloc_call.addr

====
